---- MODULE Spec2Model ----
(***************************************************************************)
(* Voter weight plugins of the governance program library: the gateway    *)
(* plugin (credential-gated voter weight, cast_vote accumulation) and the *)
(* quadratic plugin (weight = transform of the deposited amount).          *)
(*                                                                         *)
(* Pubkeys are small naturals, 0 being Pubkey::default().  Option<T> is a  *)
(* sequence of length 0 (None) or 1 (Some).  A u64 weight is kept at its   *)
(* full width as four 16-bit limbs, most significant first, so that        *)
(* checked_add overflows exactly where the program's does.                 *)
(***************************************************************************)
EXTENDS Integers, Sequences, FiniteSets, TLC

----------------------------------------------------------------------------
(* Bounds of the model *)

MaxSlot == 1          \* the clock advances up to this slot
MaxCastVotes == 3     \* successful cast_vote calls explored per behaviour
MaxBaseWeight == 5    \* every base weight up to this one is converted

----------------------------------------------------------------------------
(* Option<T> *)

None == <<>>
Some(v) == <<v>>
IsSome(o) == Len(o) = 1
Unwrap(o) == o[1]

----------------------------------------------------------------------------
(* u64 arithmetic on limbs *)

LimbBase == 2^16

U64 == [1..4 -> 0..(LimbBase - 1)]

U64Zero == <<0, 0, 0, 0>>

U64Max == <<LimbBase - 1, LimbBase - 1, LimbBase - 1, LimbBase - 1>>

\* the u64 holding a natural below 2^31
U64FromNat(n) == <<0, 0, n \div LimbBase, n % LimbBase>>

\* x + y as five limbs: the carry out of bit 63 followed by the low 64 bits
WideAdd(x, y) ==
    LET s4 == x[4] + y[4]
        s3 == x[3] + y[3] + (s4 \div LimbBase)
        s2 == x[2] + y[2] + (s3 \div LimbBase)
        s1 == x[1] + y[1] + (s2 \div LimbBase)
    IN  <<s1 \div LimbBase, s1 % LimbBase, s2 % LimbBase, s3 % LimbBase, s4 % LimbBase>>

Low64(w) == <<w[2], w[3], w[4], w[5]>>

\* u64::wrapping_add, the sum modulo 2^64
wrapping_add(x, y) == Low64(WideAdd(x, y))

\* u64::checked_add: None when the sum does not fit 64 bits
checked_add_wraps(x, y) == Some(wrapping_add(x, y))

checked_add(x, y) ==
    LET w == WideAdd(x, y)
    IN  IF w[1] > 0 THEN None ELSE Some(Low64(w))

----------------------------------------------------------------------------
(* Constants of the program *)

\* VoterWeightAction, by ordinal
CastVote == 0
CommentProposal == 1
CreateGovernance == 2
CreateProposal == 3
SignOffProposal == 4

VoterWeightAction == {CastVote, CommentProposal, CreateGovernance, CreateProposal, SignOffProposal}

DEFAULT_VOTE_WEIGHT == U64FromNat(1000000)

\* the weight the doc comment of cast_vote and the update test expect
UnitWeight == U64FromNat(1)

----------------------------------------------------------------------------
(* The world the instructions run in *)

Owners == {1, 2}           \* wallets (governing token owners)
NewOwners == {1}           \* the owners a voter weight record gets created for
Networks == {1, 2}         \* gatekeeper networks
Proposals == {0, 1}        \* proposal addresses, 0 being the all-zero key

\* the gateway token account a caller presents: who holds the token, which
\* network issued it, and whether it is active when the instruction runs
GatewayTokens == [owner : Owners, network : Networks, active : BOOLEAN]

\* the actions callers ask update_voter_weight_record for
RequestedActions == {CastVote, CommentProposal, CreateProposal}

VARIABLES
    slot,         \* Clock::get().slot
    registrar,    \* the Registrar account of the realm
    vwr,          \* owner -> VoterWeightRecord of the gateway plugin
    castVotes,    \* successful cast_vote calls so far
    streak,       \* owner -> proposal and length of the record's run of cast_vote calls
    last,         \* the latest instruction: the record it was given, its argument,
                  \* its outcome, the account as it was before, and whether the
                  \* accounts, the signer and the gateway token were in order
    qregistrar,   \* the Registrar account of the quadratic plugin
    deposits,     \* owner -> governing tokens deposited (TokenOwnerRecord)
    qvwr,         \* owner -> VoterWeightRecord of the quadratic plugin
    qlast,        \* the latest instruction of the quadratic plugin
    calc          \* the evaluations of pure functions: their inputs, how many
                  \* have run, and what they returned

gvars == <<registrar, vwr, castVotes, streak, last>>

qvars == <<qregistrar, deposits, qvwr, qlast>>

vars == <<slot, gvars, qvars, calc>>

----------------------------------------------------------------------------
(* State of the accounts *)

\* the realm authority that may configure the registrar
RealmAuthority == 9

\* a predecessor plugin program
PredecessorProgram == 7

\* the Registrar as create_registrar leaves it
InitRegistrar ==
    [realm |-> 1,
     governing_token_mint |-> 1,
     gatekeeper_network |-> 1,
     previous_voting_weight_plugin_program_id |-> None]

\* registrars of the same realm for another mint, and of another realm
ForeignRegistrars ==
    { [InitRegistrar EXCEPT !.governing_token_mint = 2],
      [InitRegistrar EXCEPT !.realm = 2] }

\* VoterWeightRecord::default() with the identity fields filled in: every
\* option is Some, as get_space needs it
DefaultVoterWeightRecord(reg, owner) ==
    [realm |-> reg.realm,
     governing_token_mint |-> reg.governing_token_mint,
     governing_token_owner |-> owner,
     voter_weight |-> U64Zero,
     voter_weight_expiry |-> Some(0),
     weight_action |-> Some(CastVote),
     weight_action_target |-> Some(0),
     reserved |-> 0]

\* the account create_voter_weight_record leaves behind for an owner
NewVoterWeightRecord(reg, owner) ==
    [realm |-> reg.realm,
     governing_token_mint |-> reg.governing_token_mint,
     governing_token_owner |-> owner,
     voter_weight |-> U64Zero,
     voter_weight_expiry |-> Some(0),
     weight_action |-> None,
     weight_action_target |-> None,
     reserved |-> 0]

\* weights of a record that has accumulated for a long time: k and k+1 times
\* DEFAULT_VOTE_WEIGHT, k+1 = 18446744073709 being the most that fit a u64
LongAccumulatedWeights ==
    { <<65535, 65535, 65512, 21248>>, <<65535, 65535, 65527, 38208>> }

\* a record of owner 1 that cast_vote has been accumulating on for proposal 1
LongAccumulatedRecords ==
    { [NewVoterWeightRecord(InitRegistrar, 1) EXCEPT
          !.voter_weight = w,
          !.weight_action = Some(CastVote),
          !.weight_action_target = Some(1)] : w \in LongAccumulatedWeights }

\* an account allocated for a record and never populated: every byte is zero
UnpopulatedRecord ==
    [realm |-> 0,
     governing_token_mint |-> 0,
     governing_token_owner |-> 0,
     voter_weight |-> U64Zero,
     voter_weight_expiry |-> None,
     weight_action |-> None,
     weight_action_target |-> None,
     reserved |-> 0]

\* IsInitialized for VoterWeightRecord; Pubkey::default() is the zero key
is_initialized_any(rec) ==
    \/ rec.realm # 0
    \/ rec.governing_token_mint # 0
    \/ rec.governing_token_owner # 0

is_initialized(rec) ==
    /\ rec.realm # 0
    /\ rec.governing_token_mint # 0
    /\ rec.governing_token_owner # 0

NoStreak == [p |-> 0, n |-> 0]

\* What the history variable last records about the accounts of a call:
\* the record belongs to the realm and mint of the registrar presented,
AccountsMatch(rec, reg) ==
    rec.realm = reg.realm /\ rec.governing_token_mint = reg.governing_token_mint

\* and the credential oracle accepts the token for the owner and the network
OracleAccepts(token, owner, network) ==
    token.active /\ token.owner = owner /\ token.network = network

\* no pure function is being evaluated
NoCalc == [fn |-> "none", inputs |-> << >>, outs |-> << >>]

NoCall ==
    [op |-> "none", key |-> 0, arg |-> 0, err |-> "Ok", pre |-> << >>,
     accounts |-> TRUE, signed |-> TRUE, accepted |-> TRUE, input |-> << >>]

\* the quadratic coefficients a registrar may carry
QuadraticCoefficients ==
    { [a |-> 1, b |-> 0, c |-> 0],
      [a |-> 2, b |-> 1, c |-> 3],
      [a |-> 1, b |-> 0, c |-> -2] }

\* the amounts an owner deposits
DepositAmounts == {0, 3, 4, 1000000}

\* the quadratic plugin before its first instruction, its registrar carrying
\* any of the coefficient sets
QuadInit ==
    /\ slot = 0
    /\ registrar = InitRegistrar
    /\ vwr = << >>
    /\ castVotes = 0
    /\ streak = << >>
    /\ last = NoCall
    /\ \E co \in QuadraticCoefficients :
          qregistrar = [realm |-> 1,
                        governing_token_mint |-> 1,
                        previous_voter_weight_plugin_program_id |-> None,
                        quadratic_coefficients |-> co]
    /\ deposits = [o \in NewOwners |-> 0]
    /\ qvwr = << >>
    /\ qlast = NoCall
    /\ calc = NoCalc

Init ==
    /\ slot = 0
    /\ registrar = InitRegistrar
    /\ \/ vwr = << >>
       \/ \E rec \in LongAccumulatedRecords : vwr = (1 :> rec)
    /\ castVotes = 0
    /\ streak = [k \in DOMAIN vwr |-> NoStreak]
    /\ last = NoCall
    /\ qregistrar = [realm |-> 1,
                     governing_token_mint |-> 1,
                     previous_voter_weight_plugin_program_id |-> None,
                     quadratic_coefficients |-> [a |-> 1, b |-> 0, c |-> 0]]
    /\ deposits = [o \in NewOwners |-> 0]
    /\ qvwr = << >>
    /\ qlast = NoCall
    /\ calc = NoCalc

----------------------------------------------------------------------------
(* The environment: the clock *)

AdvanceClock ==
    /\ slot < MaxSlot
    /\ slot' = slot + 1
    /\ last' = NoCall
    /\ qlast' = NoCall
    /\ UNCHANGED <<calc, registrar, vwr, castVotes, streak, qregistrar, deposits, qvwr>>

----------------------------------------------------------------------------
(* Gateway plugin: registrar and record creation *)

\* the realm authority is a Signer of the accounts, checked before the
\* handler compares it with the authority of the realm
update_registrar_unchecked(authority, signed, network, predecessor) ==
    /\ registrar' = [registrar EXCEPT
                       !.gatekeeper_network = network,
                       !.previous_voting_weight_plugin_program_id = predecessor]
    /\ last' = [op |-> "update_registrar", key |-> 0, arg |-> network, err |-> "Ok",
                pre |-> registrar, accounts |-> (authority = RealmAuthority),
                signed |-> signed, accepted |-> TRUE,
                input |-> [network |-> network, predecessor |-> predecessor]]
    /\ UNCHANGED <<calc, slot, vwr, castVotes, streak, qvars>>

update_registrar(authority, signed, network, predecessor) ==
    LET err == IF ~signed THEN "AccountNotSigner"
               ELSE IF authority # RealmAuthority THEN "InvalidRealmAuthority"
               ELSE "Ok"
    IN  /\ registrar' = IF err = "Ok"
                        THEN [registrar EXCEPT
                                !.gatekeeper_network = network,
                                !.previous_voting_weight_plugin_program_id = predecessor]
                        ELSE registrar
        /\ last' = [op |-> "update_registrar", key |-> 0, arg |-> network, err |-> err,
                    pre |-> registrar, accounts |-> (authority = RealmAuthority),
                    signed |-> signed, accepted |-> TRUE,
                    input |-> [network |-> network, predecessor |-> predecessor]]
        /\ UNCHANGED <<calc, slot, vwr, castVotes, streak, qvars>>

create_voter_weight_record(governing_token_owner) ==
    /\ governing_token_owner \notin DOMAIN vwr
    /\ vwr' = vwr @@ (governing_token_owner :>
                        NewVoterWeightRecord(registrar, governing_token_owner))
    /\ streak' = streak @@ (governing_token_owner :> NoStreak)
    /\ last' = [op |-> "create_voter_weight_record", key |-> governing_token_owner,
                arg |-> 0, err |-> "Ok", pre |-> << >>,
                accounts |-> TRUE, signed |-> TRUE, accepted |-> TRUE,
                input |-> << >>]
    /\ UNCHANGED <<calc, slot, registrar, castVotes, qvars>>

----------------------------------------------------------------------------
(* Gateway plugin: cast_vote *)

\* the account constraints of CastVote, in the order they are declared;
\* signer is the key that signs as governing_token_owner
CastVoteAccountsOwnerUnchecked(reg, rec, signer) ==
    IF rec.realm # reg.realm THEN "InvalidVoterWeightRecordRealm"
    ELSE IF rec.governing_token_mint # reg.governing_token_mint
         THEN "InvalidVoterWeightRecordMint"
    ELSE "Ok"

CastVoteAccounts(reg, rec, signer) ==
    IF rec.realm # reg.realm THEN "InvalidVoterWeightRecordRealm"
    ELSE IF rec.governing_token_mint # reg.governing_token_mint
         THEN "InvalidVoterWeightRecordMint"
    ELSE IF signer # rec.governing_token_owner
         THEN "InvalidTokenOwnerForVoterWeightRecord"
    ELSE "Ok"

\* Gateway::verify_gateway_token_account_info: the presented token is active,
\* is held by the owner and was issued by the gatekeeper network
verify_gateway_token_skipped(token, owner, gatekeeper_network) == TRUE

verify_gateway_token_account_info(token, owner, gatekeeper_network) ==
    /\ token.active
    /\ token.owner = owner
    /\ token.network = gatekeeper_network

\* the record is already scoped to casting a vote on this proposal
SameTargetUnexpired(rec, proposal) ==
    /\ rec.weight_action_target = Some(proposal)
    /\ rec.weight_action = Some(CastVote)
    /\ rec.voter_weight_expiry = Some(slot)

SameTargetNever(rec, proposal) == FALSE

SameTargetAnyProposal(rec, proposal) ==
    rec.weight_action = Some(CastVote) /\ IsSome(rec.weight_action_target)

SameTarget(rec, proposal) ==
    /\ rec.weight_action_target = Some(proposal)
    /\ rec.weight_action = Some(CastVote)

\* the new voter_weight, None when checked_add(..).unwrap() panics
NewVoterWeight(rec, proposal) ==
    LET voter_weight == DEFAULT_VOTE_WEIGHT
    IN  IF SameTarget(rec, proposal)
        THEN checked_add(rec.voter_weight, voter_weight)
        ELSE Some(voter_weight)

\* the stamps cast_vote puts on the record after the weight
StampKeepsExpiry(rec, now, proposal) ==
    [rec EXCEPT !.weight_action = Some(CastVote),
                !.weight_action_target = Some(proposal)]

StampCastVote(rec, now, proposal) ==
    [rec EXCEPT !.voter_weight_expiry = Some(now),
                !.weight_action = Some(CastVote),
                !.weight_action_target = Some(proposal)]

\* the handler: the error it returns and the record the transaction commits
CastVoteHandler(reg, rec, token, proposal, now) ==
    IF ~verify_gateway_token_account_info(token, rec.governing_token_owner,
                                          reg.gatekeeper_network)
    THEN [err |-> "InvalidGatewayToken", rec |-> rec]
    ELSE LET w == NewVoterWeight(rec, proposal)
         IN  IF ~IsSome(w)
             THEN [err |-> "Panic", rec |-> rec]
             ELSE [err |-> "Ok",
                   rec |-> StampCastVote([rec EXCEPT !.voter_weight = Unwrap(w)],
                                         now, proposal)]

\* the run of cast_vote calls of a record after this call
NextStreak(old, pre, proposal) ==
    IF pre.voter_weight = U64Zero /\ pre.weight_action = None
    THEN [p |-> proposal, n |-> 1]
    ELSE IF old.n > 0 /\ old.p = proposal
         THEN [p |-> proposal, n |-> old.n + 1]
         ELSE NoStreak

\* the instruction writes the one record among its accounts
cast_vote_every_record(k, reg, signer, token, proposal) ==
    /\ k \in DOMAIN vwr
    /\ LET pre == vwr[k]
           acc == CastVoteAccounts(reg, pre, signer)
           res == IF acc # "Ok"
                  THEN [err |-> acc, rec |-> pre]
                  ELSE CastVoteHandler(reg, pre, token, proposal, slot)
       IN  /\ res.err = "Ok" => castVotes < MaxCastVotes
           /\ vwr' = [j \in DOMAIN vwr |->
                        IF j = k THEN res.rec
                        ELSE IF res.err = "Ok"
                             THEN StampCastVote(vwr[j], slot, proposal)
                             ELSE vwr[j]]
           /\ castVotes' = IF res.err = "Ok" THEN castVotes + 1 ELSE castVotes
           /\ streak' = IF res.err = "Ok"
                        THEN [streak EXCEPT ![k] = NextStreak(@, pre, proposal)]
                        ELSE streak
           /\ last' = [op |-> "cast_vote", key |-> k, arg |-> proposal, err |-> res.err,
                       pre |-> pre,
                       accounts |-> AccountsMatch(pre, reg),
                       signed |-> (signer = pre.governing_token_owner),
                       accepted |-> OracleAccepts(token, pre.governing_token_owner,
                                                  reg.gatekeeper_network),
                       input |-> [realm |-> reg.realm,
                                  governing_token_mint |-> reg.governing_token_mint,
                                  signer |-> signer]]
    /\ UNCHANGED <<calc, slot, registrar, qvars>>

cast_vote(k, reg, signer, token, proposal) ==
    /\ k \in DOMAIN vwr
    /\ LET pre == vwr[k]
           acc == CastVoteAccounts(reg, pre, signer)
           res == IF acc # "Ok"
                  THEN [err |-> acc, rec |-> pre]
                  ELSE CastVoteHandler(reg, pre, token, proposal, slot)
       IN  /\ res.err = "Ok" => castVotes < MaxCastVotes
           /\ vwr' = [vwr EXCEPT ![k] = res.rec]
           /\ castVotes' = IF res.err = "Ok" THEN castVotes + 1 ELSE castVotes
           /\ streak' = IF res.err = "Ok"
                        THEN [streak EXCEPT ![k] = NextStreak(@, pre, proposal)]
                        ELSE streak
           /\ last' = [op |-> "cast_vote", key |-> k, arg |-> proposal, err |-> res.err,
                       pre |-> pre,
                       accounts |-> AccountsMatch(pre, reg),
                       signed |-> (signer = pre.governing_token_owner),
                       accepted |-> OracleAccepts(token, pre.governing_token_owner,
                                                  reg.gatekeeper_network),
                       input |-> [realm |-> reg.realm,
                                  governing_token_mint |-> reg.governing_token_mint,
                                  signer |-> signer]]
    /\ UNCHANGED <<calc, slot, registrar, qvars>>

----------------------------------------------------------------------------
(* Gateway plugin: update_voter_weight_record *)

\* the account constraints of UpdateVoterWeightRecord
UpdateAccounts(reg, rec) ==
    IF rec.realm # reg.realm THEN "InvalidVoterWeightRecordRealm"
    ELSE IF rec.governing_token_mint # reg.governing_token_mint
         THEN "InvalidVoterWeightRecordMint"
    ELSE "Ok"

\* the record is in the middle of a cast_vote accumulation
ScopedToCastVote(rec) ==
    rec.weight_action = Some(CastVote) /\ IsSome(rec.weight_action_target)

\* cast-vote weight must go through cast_vote: neither a cast-vote action nor
\* a record that cast_vote is accumulating on is served by the general update
CastVoteRequestedOnly(rec, action) == action = CastVote

CastVoteScopeOnly(rec, action) == ScopedToCastVote(rec)

CastVoteIsNotAllowed(rec, action) == action = CastVote \/ ScopedToCastVote(rec)

UpdateHandler(reg, rec, token, action, now) ==
    IF ~verify_gateway_token_account_info(token, rec.governing_token_owner,
                                          reg.gatekeeper_network)
    THEN [err |-> "InvalidGatewayToken", rec |-> rec]
    ELSE IF CastVoteIsNotAllowed(rec, action)
    THEN [err |-> "CastVoteIsNotAllowed", rec |-> rec]
    ELSE [err |-> "Ok",
          rec |-> [rec EXCEPT !.voter_weight = DEFAULT_VOTE_WEIGHT,
                              !.voter_weight_expiry = Some(now),
                              !.weight_action = Some(action),
                              !.weight_action_target = None]]

update_voter_weight_record(k, reg, token, action) ==
    /\ k \in DOMAIN vwr
    /\ LET pre == vwr[k]
           acc == UpdateAccounts(reg, pre)
           res == IF acc # "Ok"
                  THEN [err |-> acc, rec |-> pre]
                  ELSE UpdateHandler(reg, pre, token, action, slot)
       IN  /\ vwr' = [vwr EXCEPT ![k] = res.rec]
           /\ streak' = IF res.err = "Ok" THEN [streak EXCEPT ![k] = NoStreak] ELSE streak
           /\ last' = [op |-> "update_voter_weight_record", key |-> k, arg |-> action,
                       err |-> res.err, pre |-> pre,
                       accounts |-> AccountsMatch(pre, reg),
                       signed |-> TRUE,
                       accepted |-> OracleAccepts(token, pre.governing_token_owner,
                                                  reg.gatekeeper_network),
                       input |-> << >>]
    /\ UNCHANGED <<calc, slot, registrar, castVotes, qvars>>

----------------------------------------------------------------------------

\* the configurations update_registrar is called with
RegistrarConfigurations ==
    { [network |-> 1, predecessor |-> None],
      [network |-> 2, predecessor |-> None],
      [network |-> 2, predecessor |-> Some(PredecessorProgram)] }

\* the registrar accounts a caller may present
RegistrarAccounts == {registrar} \cup ForeignRegistrars

\* a registrar of another realm and another mint
UnrelatedRegistrar ==
    [InitRegistrar EXCEPT !.realm = 2, !.governing_token_mint = 2]

Next ==
    \/ AdvanceClock
    \/ \E a \in {RealmAuthority, 1}, s \in BOOLEAN, c \in RegistrarConfigurations :
          update_registrar(a, s, c.network, c.predecessor)
    \/ \E o \in NewOwners : create_voter_weight_record(o)
    \/ \E k \in DOMAIN vwr, reg \in RegistrarAccounts \cup {UnrelatedRegistrar},
          s \in Owners, t \in GatewayTokens, p \in Proposals :
          cast_vote(k, reg, s, t, p)
    \/ \E k \in DOMAIN vwr, reg \in RegistrarAccounts, t \in GatewayTokens,
          a \in RequestedActions : update_voter_weight_record(k, reg, t, a)

Spec == Init /\ [][Next]_vars

----------------------------------------------------------------------------
(* The gateway program as its entry points expose it *)

\* the instructions of the #[program] module
DispatchedInstructions ==
    {"create_registrar", "create_voter_weight_record", "update_voter_weight_record"}

\* a cast_vote instruction sent to the program: the entry point runs the
\* handler of an instruction it dispatches and refuses any other
dispatch_cast_vote(k, reg, signer, token, proposal) ==
    IF "cast_vote" \in DispatchedInstructions
    THEN cast_vote(k, reg, signer, token, proposal)
    ELSE /\ k \in DOMAIN vwr
         /\ last' = [op |-> "cast_vote", key |-> k, arg |-> proposal,
                     err |-> "InstructionFallbackNotFound", pre |-> vwr[k],
                     accounts |-> AccountsMatch(vwr[k], reg),
                     signed |-> (signer = vwr[k].governing_token_owner),
                     accepted |-> OracleAccepts(token, vwr[k].governing_token_owner,
                                                reg.gatekeeper_network),
                     input |-> [realm |-> reg.realm,
                                governing_token_mint |-> reg.governing_token_mint,
                                signer |-> signer]]
         /\ UNCHANGED <<calc, slot, registrar, vwr, castVotes, streak, qvars>>

\* the program after create_registrar
DispatchInit ==
    /\ slot = 0
    /\ registrar = InitRegistrar
    /\ vwr = << >>
    /\ castVotes = 0
    /\ streak = << >>
    /\ last = NoCall
    /\ qregistrar = [realm |-> 1,
                     governing_token_mint |-> 1,
                     previous_voter_weight_plugin_program_id |-> None,
                     quadratic_coefficients |-> [a |-> 1, b |-> 0, c |-> 0]]
    /\ deposits = [o \in NewOwners |-> 0]
    /\ qvwr = << >>
    /\ qlast = NoCall
    /\ calc = NoCalc

DispatchNext ==
    \/ AdvanceClock
    \/ \E o \in NewOwners : create_voter_weight_record(o)
    \/ \E k \in DOMAIN vwr, reg \in RegistrarAccounts, t \in GatewayTokens,
          a \in RequestedActions : update_voter_weight_record(k, reg, t, a)
    \/ \E k \in DOMAIN vwr, reg \in RegistrarAccounts, s \in Owners,
          t \in GatewayTokens, p \in Proposals : dispatch_cast_vote(k, reg, s, t, p)

DispatchSpec == DispatchInit /\ [][DispatchNext]_vars

----------------------------------------------------------------------------
(* The gateway plugin with the records of two owners: owner 1 casts votes,
   any owner signing, while the record of owner 2 stands by *)

\* the record of owner 2: as created, or accumulated for proposal 1
SecondOwnerRecords ==
    { NewVoterWeightRecord(InitRegistrar, 2),
      [NewVoterWeightRecord(InitRegistrar, 2) EXCEPT
          !.voter_weight = DEFAULT_VOTE_WEIGHT,
          !.weight_action = Some(CastVote),
          !.weight_action_target = Some(1)] }

TwoRecordInit ==
    /\ slot = 0
    /\ registrar = InitRegistrar
    /\ \E rec \in SecondOwnerRecords :
          vwr = (1 :> NewVoterWeightRecord(InitRegistrar, 1)) @@ (2 :> rec)
    /\ castVotes = 0
    /\ streak = (1 :> NoStreak) @@ (2 :> NoStreak)
    /\ last = NoCall
    /\ qregistrar = [realm |-> 1,
                     governing_token_mint |-> 1,
                     previous_voter_weight_plugin_program_id |-> None,
                     quadratic_coefficients |-> [a |-> 1, b |-> 0, c |-> 0]]
    /\ deposits = [o \in NewOwners |-> 0]
    /\ qvwr = << >>
    /\ qlast = NoCall
    /\ calc = NoCalc

TwoRecordNext ==
    \/ AdvanceClock
    \/ \E c \in RegistrarConfigurations :
          update_registrar(RealmAuthority, TRUE, c.network, c.predecessor)
    \/ \E k \in NewOwners, reg \in RegistrarAccounts, s \in Owners,
          t \in GatewayTokens, p \in Proposals : cast_vote(k, reg, s, t, p)

TwoRecordSpec == TwoRecordInit /\ [][TwoRecordNext]_vars

----------------------------------------------------------------------------
(* The gateway plugin presented with an account that was allocated for a
   record and never populated *)

\* a credential issued to the zero key; nobody holds the zero key to sign with
ZeroKeyToken == [owner |-> 0, network |-> 1, active |-> TRUE]

\* the identity fields is_initialized is evaluated on
IdentityKeys == {0, 1, 2}

UnpopulatedInit ==
    /\ slot = 0
    /\ registrar = InitRegistrar
    /\ vwr = (0 :> UnpopulatedRecord)
    /\ castVotes = 0
    /\ streak = (0 :> NoStreak)
    /\ last = NoCall
    /\ qregistrar = [realm |-> 1,
                     governing_token_mint |-> 1,
                     previous_voter_weight_plugin_program_id |-> None,
                     quadratic_coefficients |-> [a |-> 1, b |-> 0, c |-> 0]]
    /\ deposits = [o \in NewOwners |-> 0]
    /\ qvwr = << >>
    /\ qlast = NoCall
    /\ calc = NoCalc

ApplyIsInitialized(realm, mint, owner) ==
    /\ calc' = [fn |-> "is_initialized",
                inputs |-> [realm |-> realm, governing_token_mint |-> mint,
                            governing_token_owner |-> owner],
                outs |-> <<is_initialized([UnpopulatedRecord EXCEPT
                                             !.realm = realm,
                                             !.governing_token_mint = mint,
                                             !.governing_token_owner = owner])>>]
    /\ UNCHANGED <<slot, gvars, qvars>>

UnpopulatedNext ==
    \/ AdvanceClock
    \/ \E a \in {RealmAuthority, 1}, s \in BOOLEAN, c \in RegistrarConfigurations :
          update_registrar(a, s, c.network, c.predecessor)
    \/ \E k \in DOMAIN vwr, reg \in RegistrarAccounts, s \in Owners,
          t \in GatewayTokens \cup {ZeroKeyToken}, p \in Proposals :
          cast_vote(k, reg, s, t, p)
    \/ \E k \in DOMAIN vwr, reg \in RegistrarAccounts,
          t \in GatewayTokens \cup {ZeroKeyToken}, a \in RequestedActions :
          update_voter_weight_record(k, reg, t, a)
    \/ \E r \in IdentityKeys, m \in IdentityKeys, o \in IdentityKeys :
          ApplyIsInitialized(r, m, o)

UnpopulatedSpec == UnpopulatedInit /\ [][UnpopulatedNext]_vars

----------------------------------------------------------------------------
(* Quadratic plugin *)

(* Arbitrary-precision arithmetic (rug): a natural number is the sequence of
   its base-256 digits, least significant first and without a leading zero;
   a whole number is a sign and a magnitude *)

Digit == 256

RECURSIVE NatTrim(_)
NatTrim(x) ==
    IF x = << >> THEN << >>
    ELSE IF x[Len(x)] = 0 THEN NatTrim(SubSeq(x, 1, Len(x) - 1))
    ELSE x

RECURSIVE NatFromInt(_)
NatFromInt(n) ==
    IF n = 0 THEN << >> ELSE <<n % Digit>> \o NatFromInt(n \div Digit)

RECURSIVE NatAddCarry(_, _, _)
NatAddCarry(x, y, carry) ==
    IF x = << >> /\ y = << >>
    THEN IF carry = 0 THEN << >> ELSE <<carry>>
    ELSE LET dx == IF x = << >> THEN 0 ELSE Head(x)
             dy == IF y = << >> THEN 0 ELSE Head(y)
             sum == dx + dy + carry
         IN  <<sum % Digit>>
                \o NatAddCarry(IF x = << >> THEN x ELSE Tail(x),
                               IF y = << >> THEN y ELSE Tail(y),
                               sum \div Digit)

NatAdd(x, y) == NatAddCarry(x, y, 0)

\* x - y for x >= y, before the leading zeros are dropped
RECURSIVE NatSubBorrow(_, _, _)
NatSubBorrow(x, y, borrow) ==
    IF x = << >> THEN << >>
    ELSE LET dy == IF y = << >> THEN 0 ELSE Head(y)
             diff == Head(x) - dy - borrow
         IN  <<diff % Digit>>
                \o NatSubBorrow(Tail(x), IF y = << >> THEN y ELSE Tail(y),
                                IF diff < 0 THEN 1 ELSE 0)

NatSub(x, y) == NatTrim(NatSubBorrow(x, y, 0))

\* x <= y, comparing the digits below position i once the lengths agree
RECURSIVE NatLeqFrom(_, _, _)
NatLeqFrom(x, y, i) ==
    IF i = 0 THEN TRUE
    ELSE IF x[i] # y[i] THEN x[i] < y[i]
    ELSE NatLeqFrom(x, y, i - 1)

NatLeq(x, y) ==
    IF Len(x) # Len(y) THEN Len(x) < Len(y) ELSE NatLeqFrom(x, y, Len(x))

RECURSIVE NatMulDigit(_, _, _)
NatMulDigit(x, d, carry) ==
    IF x = << >>
    THEN IF carry = 0 THEN << >> ELSE <<carry>>
    ELSE LET prod == Head(x) * d + carry
         IN  <<prod % Digit>> \o NatMulDigit(Tail(x), d, prod \div Digit)

RECURSIVE NatMul(_, _)
NatMul(x, y) ==
    IF x = << >> \/ y = << >> THEN << >>
    ELSE LET rest == NatMul(x, Tail(y))
         IN  NatTrim(NatAdd(NatMulDigit(x, Head(y), 0),
                            IF rest = << >> THEN rest ELSE <<0>> \o rest))

\* d * 256^i
NatShift(d, i) ==
    IF d = 0 THEN << >> ELSE [k \in 1..(i + 1) |-> IF k = i + 1 THEN d ELSE 0]

\* the largest digit d in lo..hi with (r + d * 256^i)^2 <= n
RECURSIVE NatSqrtDigit(_, _, _, _, _)
NatSqrtDigit(n, r, i, lo, hi) ==
    IF lo = hi THEN lo
    ELSE LET mid == (lo + hi + 1) \div 2
             try == NatAdd(r, NatShift(mid, i))
         IN  IF NatLeq(NatMul(try, try), n)
             THEN NatSqrtDigit(n, r, i, mid, hi)
             ELSE NatSqrtDigit(n, r, i, lo, mid - 1)

\* the largest r with r * r <= n, found digit by digit from the top: r holds
\* the digits above position i
RECURSIVE NatSqrtFrom(_, _, _)
NatSqrtFrom(n, r, i) ==
    LET next == NatAdd(r, NatShift(NatSqrtDigit(n, r, i, 0, Digit - 1), i))
    IN  IF i = 0 THEN next ELSE NatSqrtFrom(n, next, i - 1)

\* the largest r in lo..hi with r * r <= n
RECURSIVE SqrtBetween(_, _, _)
SqrtBetween(n, lo, hi) ==
    IF lo = hi THEN lo
    ELSE LET mid == (lo + hi + 1) \div 2
         IN  IF mid * mid <= n THEN SqrtBetween(n, mid, hi)
             ELSE SqrtBetween(n, lo, mid - 1)

\* floor of the square root of n < 2^24
FloorSqrt(n) == SqrtBetween(n, 0, 4095)

\* floor of the square root: the leading two or three digits of n give the
\* leading digits of the root, the digits after them are found one by one
NatSqrt(n) ==
    LET below == IF Len(n) <= 3 THEN 0 ELSE (Len(n) - 2) \div 2
        at(i) == IF 2 * below + i <= Len(n) THEN n[2 * below + i] ELSE 0
        top == at(1) + Digit * at(2) + Digit * Digit * at(3)
        lead == NatFromInt(FloorSqrt(top))
    IN  IF below = 0 THEN lead
        ELSE NatSqrtFrom(n, [k \in 1..below |-> 0] \o lead, below - 1)

BigFromInt(n) ==
    [neg |-> n < 0, mag |-> NatFromInt(IF n < 0 THEN -n ELSE n)]

BigAdd(p, q) ==
    IF p.neg = q.neg THEN [neg |-> p.neg, mag |-> NatAdd(p.mag, q.mag)]
    ELSE IF NatLeq(q.mag, p.mag)
         THEN [neg |-> p.neg /\ p.mag # q.mag, mag |-> NatSub(p.mag, q.mag)]
         ELSE [neg |-> q.neg, mag |-> NatSub(q.mag, p.mag)]

BigMul(p, q) ==
    LET mag == NatMul(p.mag, q.mag)
    IN  [neg |-> (p.neg # q.neg) /\ mag # << >>, mag |-> mag]

\* Float::from(u64): the digits of the four limbs
FloatFromU64(w) ==
    [neg |-> FALSE,
     mag |-> NatTrim(<<w[4] % Digit, w[4] \div Digit, w[3] % Digit, w[3] \div Digit,
                       w[2] % Digit, w[2] \div Digit, w[1] % Digit, w[1] \div Digit>>)]

\* x.mul(a), the square root left out
MulWithoutSqrt(x, a) == BigMul(x, a)

\* x.sqrt().mul(a), rounded down to a whole number: the largest r with
\* r * r <= a * a * x for a >= 0, and minus the smallest such r for a < 0
SqrtMul(x, a) ==
    LET square == NatMul(NatMul(a.mag, a.mag), x.mag)
        r == NatSqrt(square)
    IN  IF ~a.neg THEN [neg |-> FALSE, mag |-> r]
        ELSE IF NatMul(r, r) = square THEN [neg |-> r # << >>, mag |-> r]
        ELSE [neg |-> TRUE, mag |-> NatAdd(r, <<1>>)]

\* the u64 of eight digits
U64FromDigits(d) ==
    LET at(i) == IF i <= Len(d) THEN d[i] ELSE 0
    IN  <<at(8) * Digit + at(7), at(6) * Digit + at(5),
          at(4) * Digit + at(3), at(2) * Digit + at(1)>>

\* to_u64(): no value for a negative number and for one above u64::MAX
to_u64_saturating(v) ==
    IF v.neg THEN Some(U64Zero)
    ELSE IF Len(v.mag) > 8 THEN Some(U64Max)
    ELSE Some(U64FromDigits(v.mag))

to_u64_wrapping(v) == IF v.neg THEN None ELSE Some(U64FromDigits(v.mag))

to_u64(v) ==
    IF v.neg \/ Len(v.mag) > 8 THEN None ELSE Some(U64FromDigits(v.mag))

\* convert_vote: a * sqrt(x) + b * x + c as a u64, None when to_u64() has no
\* value to give and unwrap() panics.  b * x and c being whole numbers, the sum
\* rounded down is the first term rounded down plus the other two.
convert_vote_without_c(input_voter_weight, coefficients) ==
    LET big_input_voter_weight == FloatFromU64(input_voter_weight)
        first_term == SqrtMul(big_input_voter_weight, BigFromInt(coefficients.a))
    IN  to_u64(BigAdd(first_term,
                      BigMul(big_input_voter_weight, BigFromInt(coefficients.b))))

convert_vote(input_voter_weight, coefficients) ==
    LET big_input_voter_weight == FloatFromU64(input_voter_weight)
        a == BigFromInt(coefficients.a)
        b == BigFromInt(coefficients.b)
        c == BigFromInt(coefficients.c)
        first_term == SqrtMul(big_input_voter_weight, a)
        full_term == BigAdd(BigAdd(first_term, BigMul(big_input_voter_weight, b)), c)
    IN  to_u64(full_term)

\* the names of VoterWeightAction, in the order of their ordinals
VoterWeightActionNames ==
    <<"CastVote", "CommentProposal", "CreateGovernance", "CreateProposal",
      "SignOffProposal">>

\* spl_governance_addin_api::voter_weight::VoterWeightAction as the plugin is
\* built against it
SplVoterWeightAction == VoterWeightActionNames

\* x as u32: the position of the variant in its enumeration
AsU32(x, enumeration) ==
    (CHOOSE i \in 1..Len(enumeration) : enumeration[i] = x) - 1

\* FromPrimitive::from_u32 as derived for VoterWeightAction
from_u32(n) == IF n \in VoterWeightAction THEN Some(n) ELSE None

\* get_weight_action of the external record: the action mapped by integer,
\* Panic when from_u32(..).unwrap() has nothing to unwrap
get_weight_action_dropped(weight_action, enumeration) ==
    [err |-> "Ok", action |-> None]

get_weight_action_defaulting(weight_action, enumeration) ==
    IF weight_action = None THEN [err |-> "Ok", action |-> None]
    ELSE LET mapped == from_u32(AsU32(Unwrap(weight_action), enumeration))
         IN  [err |-> "Ok",
              action |-> IF mapped = None THEN Some(CastVote) ELSE mapped]

get_weight_action(weight_action, enumeration) ==
    IF weight_action = None THEN [err |-> "Ok", action |-> None]
    ELSE LET mapped == from_u32(AsU32(Unwrap(weight_action), enumeration))
         IN  IF mapped = None THEN [err |-> "Panic", action |-> None]
             ELSE [err |-> "Ok", action |-> mapped]

\* the record a predecessor plugin presents: the program that owns the
\* account and the fields it publishes
PredecessorRecords ==
    { [program |-> program, realm |-> realm, governing_token_mint |-> 1,
       voter_weight |-> 9, weight_action |-> scope[1],
       weight_action_target |-> scope[2]] :
         program \in {PredecessorProgram, 8}, realm \in {1, 2},
         scope \in { <<None, None>>, <<Some("CastVote"), Some(1)>> } }

\* the input of an update: a token owner record or a predecessor's record
QuadraticInputs ==
    [kind : {"token_owner_record"}, owner : Owners]
        \cup [kind : {"voter_weight_record"}, record : PredecessorRecords]

\* the base weight, action and target the update starts from
ResolveInputAnyProgram(reg, rec, input, amounts) ==
    IF reg.previous_voter_weight_plugin_program_id = None
    THEN IF input.kind # "token_owner_record"
              \/ input.owner # rec.governing_token_owner
              \/ input.owner \notin DOMAIN amounts
         THEN [err |-> "InvalidTokenOwnerRecord"]
         ELSE [err |-> "Ok", weight |-> amounts[input.owner],
               action |-> None, target |-> None]
    ELSE IF input.kind # "voter_weight_record"
              \/ input.record.realm # reg.realm
              \/ input.record.governing_token_mint # reg.governing_token_mint
         THEN [err |-> "InvalidPredecessorVoterWeightRecord"]
         ELSE LET adapted == get_weight_action(input.record.weight_action,
                                               SplVoterWeightAction)
              IN  IF adapted.err # "Ok" THEN [err |-> adapted.err]
                  ELSE [err |-> "Ok", weight |-> input.record.voter_weight,
                        action |-> adapted.action,
                        target |-> input.record.weight_action_target]

ResolveInput(reg, rec, input, amounts) ==
    IF reg.previous_voter_weight_plugin_program_id = None
    THEN IF input.kind # "token_owner_record"
              \/ input.owner # rec.governing_token_owner
              \/ input.owner \notin DOMAIN amounts
         THEN [err |-> "InvalidTokenOwnerRecord"]
         ELSE [err |-> "Ok", weight |-> amounts[input.owner],
               action |-> None, target |-> None]
    ELSE IF input.kind # "voter_weight_record"
              \/ Some(input.record.program) # reg.previous_voter_weight_plugin_program_id
              \/ input.record.realm # reg.realm
              \/ input.record.governing_token_mint # reg.governing_token_mint
         THEN [err |-> "InvalidPredecessorVoterWeightRecord"]
         ELSE LET adapted == get_weight_action(input.record.weight_action,
                                               SplVoterWeightAction)
              IN  IF adapted.err # "Ok" THEN [err |-> adapted.err]
                  ELSE [err |-> "Ok", weight |-> input.record.voter_weight,
                        action |-> adapted.action,
                        target |-> input.record.weight_action_target]

QuadraticUpdateHandler(reg, rec, input, amounts, now) ==
    LET base == ResolveInput(reg, rec, input, amounts)
    IN  IF base.err # "Ok" THEN [err |-> base.err, rec |-> rec]
        ELSE LET w == convert_vote(U64FromNat(base.weight), reg.quadratic_coefficients)
             IN  IF ~IsSome(w) THEN [err |-> "Panic", rec |-> rec]
                 ELSE [err |-> "Ok",
                       rec |-> [rec EXCEPT !.voter_weight = Unwrap(w),
                                           !.voter_weight_expiry = Some(now),
                                           !.weight_action = base.action,
                                           !.weight_action_target = base.target]]

\* the host governance program accepts a record for a vote on a proposal
HostAcceptsVote(rec, proposal, now) ==
    /\ rec.voter_weight_expiry = Some(now)
    /\ rec.weight_action \in {None, Some(CastVote)}
    /\ rec.weight_action_target \in {None, Some(proposal)}

\* governance deposit or withdrawal of an owner's tokens
DepositGoverningTokens(owner, amount) ==
    /\ deposits[owner] # amount
    /\ deposits' = [deposits EXCEPT ![owner] = amount]
    /\ qlast' = NoCall
    /\ UNCHANGED <<calc, slot, gvars, qregistrar, qvwr>>

\* configure_registrar persists the configuration and recomputes no record
configure_registrar_recomputing(authority, use_previous_voter_weight_plugin) ==
    LET err == IF authority # RealmAuthority THEN "InvalidRealmAuthority" ELSE "Ok"
    IN  /\ qregistrar' =
              IF err = "Ok"
              THEN [qregistrar EXCEPT !.previous_voter_weight_plugin_program_id =
                       IF use_previous_voter_weight_plugin
                       THEN Some(PredecessorProgram) ELSE None]
              ELSE qregistrar
        /\ qvwr' = IF err = "Ok"
                   THEN [k \in DOMAIN qvwr |->
                           [qvwr[k] EXCEPT !.voter_weight = U64Zero,
                                           !.voter_weight_expiry = Some(slot)]]
                   ELSE qvwr
        /\ qlast' = [NoCall EXCEPT !.op = "configure_registrar", !.err = err,
                                   !.pre = qregistrar]
        /\ UNCHANGED <<calc, slot, gvars, deposits>>

configure_registrar(authority, use_previous_voter_weight_plugin) ==
    LET err == IF authority # RealmAuthority THEN "InvalidRealmAuthority" ELSE "Ok"
    IN  /\ qregistrar' =
              IF err = "Ok"
              THEN [qregistrar EXCEPT !.previous_voter_weight_plugin_program_id =
                       IF use_previous_voter_weight_plugin
                       THEN Some(PredecessorProgram) ELSE None]
              ELSE qregistrar
        /\ qlast' = [NoCall EXCEPT !.op = "configure_registrar", !.err = err,
                                   !.pre = qregistrar]
        /\ UNCHANGED <<calc, slot, gvars, deposits, qvwr>>

quadratic_create_voter_weight_record(governing_token_owner) ==
    /\ governing_token_owner \notin DOMAIN qvwr
    /\ qvwr' = qvwr @@ (governing_token_owner :>
                          NewVoterWeightRecord(qregistrar, governing_token_owner))
    /\ qlast' = [NoCall EXCEPT !.op = "create_voter_weight_record",
                               !.key = governing_token_owner]
    /\ UNCHANGED <<calc, slot, gvars, qregistrar, deposits>>

quadratic_update_voter_weight_record(k, input) ==
    /\ k \in DOMAIN qvwr
    /\ LET res == QuadraticUpdateHandler(qregistrar, qvwr[k], input, deposits, slot)
       IN  /\ qvwr' = [qvwr EXCEPT ![k] = res.rec]
           /\ qlast' = [NoCall EXCEPT !.op = "update_voter_weight_record", !.key = k,
                                      !.err = res.err, !.pre = qvwr[k],
                                      !.input = input]
    /\ UNCHANGED <<calc, slot, gvars, qregistrar, deposits>>

\* one transaction: update_voter_weight_record, then the host's cast vote
cast_vote_with_update(k, input, proposal) ==
    /\ k \in DOMAIN qvwr
    /\ LET res == QuadraticUpdateHandler(qregistrar, qvwr[k], input, deposits, slot)
           err == IF res.err # "Ok" THEN res.err
                  ELSE IF ~HostAcceptsVote(res.rec, proposal, slot)
                       THEN "VoterWeightRecordInvalid"
                       ELSE "Ok"
       IN  /\ qvwr' = [qvwr EXCEPT ![k] = IF err = "Ok" THEN res.rec ELSE @]
           /\ qlast' = [NoCall EXCEPT !.op = "cast_vote", !.key = k, !.arg = proposal,
                                      !.err = err, !.pre = qvwr[k],
                                      !.input = input]
    /\ UNCHANGED <<calc, slot, gvars, qregistrar, deposits>>

QuadNext ==
    \/ AdvanceClock
    \/ \E o \in NewOwners, n \in DepositAmounts : DepositGoverningTokens(o, n)
    \/ \E a \in {RealmAuthority, 1}, u \in BOOLEAN : configure_registrar(a, u)
    \/ \E o \in NewOwners : quadratic_create_voter_weight_record(o)
    \/ \E k \in DOMAIN qvwr, i \in QuadraticInputs :
          quadratic_update_voter_weight_record(k, i)
    \/ \E k \in DOMAIN qvwr, i \in QuadraticInputs, p \in Proposals :
          cast_vote_with_update(k, i, p)

QuadSpec == QuadInit /\ [][QuadNext]_vars

----------------------------------------------------------------------------
(* The pure functions, each applied to inputs drawn at the start *)

\* the coefficients convert_vote is given
ConvertCoefficients ==
    { [a |-> 0, b |-> 0, c |-> 0],
      [a |-> 1, b |-> 0, c |-> 0],
      [a |-> 3, b |-> 0, c |-> 1],
      [a |-> 2, b |-> 1, c |-> 3],
      [a |-> 1, b |-> 4, c |-> 0],
      [a |-> 1, b |-> 0, c |-> -2],
      [a |-> -1, b |-> 1, c |-> 0],
      [a |-> -3, b |-> 0, c |-> 4] }

\* the base weights: the small ones, the deposit of the tests, 2^32, 2^62 and
\* u64::MAX
BaseWeights ==
    { U64FromNat(n) : n \in 0..MaxBaseWeight }
        \cup { U64FromNat(1000000), <<0, 1, 0, 0>>, <<16384, 0, 0, 0>>, U64Max }

\* the external enumeration the adapter may be built against: the one in sync
\* with VoterWeightAction, one with a variant added at the end, one with two
\* variants in the other order and one without the last variant
ExternalEnumerations ==
    { SplVoterWeightAction,
      Append(SplVoterWeightAction, "AddedLater"),
      <<"CastVote", "CommentProposal", "CreateProposal", "CreateGovernance",
        "SignOffProposal">>,
      SubSeq(SplVoterWeightAction, 1, 4) }

PureInit ==
    /\ slot = 0
    /\ registrar = InitRegistrar
    /\ vwr = << >>
    /\ castVotes = 0
    /\ streak = << >>
    /\ last = NoCall
    /\ qregistrar = [realm |-> 1,
                     governing_token_mint |-> 1,
                     previous_voter_weight_plugin_program_id |-> None,
                     quadratic_coefficients |-> [a |-> 1, b |-> 0, c |-> 0]]
    /\ deposits = [o \in NewOwners |-> 0]
    /\ qvwr = << >>
    /\ qlast = NoCall
    /\ \/ \E co \in ConvertCoefficients, x1 \in BaseWeights, x2 \in BaseWeights :
             calc = [fn |-> "convert_vote",
                     inputs |-> [coefficients |-> co, weights |-> <<x1, x2>>],
                     outs |-> << >>]
       \/ \E e \in ExternalEnumerations :
             \E x \in {None} \cup { Some(e[i]) : i \in 1..Len(e) } :
                calc = [fn |-> "get_weight_action",
                        inputs |-> [enumeration |-> e, weight_action |-> x],
                        outs |-> << >>]

\* convert_vote runs on the next of the base weights
ApplyConvertVote ==
    /\ calc.fn = "convert_vote"
    /\ Len(calc.outs) < Len(calc.inputs.weights)
    /\ calc' = [calc EXCEPT !.outs =
                   Append(@, convert_vote(calc.inputs.weights[Len(calc.outs) + 1],
                                          calc.inputs.coefficients))]
    /\ UNCHANGED <<slot, gvars, qvars>>

\* the adapter runs on the action of the external record
ApplyGetWeightAction ==
    /\ calc.fn = "get_weight_action"
    /\ calc.outs = << >>
    /\ calc' = [calc EXCEPT !.outs =
                   <<get_weight_action(calc.inputs.weight_action,
                                       calc.inputs.enumeration)>>]
    /\ UNCHANGED <<slot, gvars, qvars>>

PureNext ==
    \/ ApplyConvertVote
    \/ ApplyGetWeightAction

PureSpec == PureInit /\ [][PureNext]_vars

----------------------------------------------------------------------------
(* Properties of the gateway plugin *)

\* n times a weight, modulo 2^64
RECURSIVE Times(_, _)
Times(n, w) == IF n = 0 THEN U64Zero ELSE wrapping_add(Times(n - 1, w), w)

\* the record is scoped to casting a vote on some proposal
CastVoteScoped(rec) ==
    rec.weight_action = Some(CastVote) /\ IsSome(rec.weight_action_target)

\* weight, expiry, action and target of a record
Stamped(rec) ==
    <<rec.voter_weight, rec.voter_weight_expiry, rec.weight_action,
      rec.weight_action_target>>

\* the latest instruction was this one, with this outcome
Called(op, err) == last.op = op /\ last.err = err

\* C1: a run of n >= 1 successful cast_vote calls for one proposal P, begun on a
\* record with weight 0 and no action, leaves weight = n * W, action =
\* cast-vote and target = P (W being the per-call weight).
C1_AccumulationSameTarget ==
    \A o \in DOMAIN vwr :
        streak[o].n >= 1 =>
            /\ vwr[o].voter_weight = Times(streak[o].n, DEFAULT_VOTE_WEIGHT)
            /\ vwr[o].weight_action = Some(CastVote)
            /\ vwr[o].weight_action_target = Some(streak[o].p)

\* three calls for the same proposal have been made on a fresh record
C1_Witness ==
    /\ Called("cast_vote", "Ok")
    /\ streak[last.key].n = 3
    /\ streak[last.key].p = last.arg

\* C2: once weight has accumulated for proposal P, a successful cast_vote for
\* another proposal Q sets the weight to that call's weight alone and
\* re-targets the record to Q.
C2_ResetOnTargetChange ==
    ( /\ Called("cast_vote", "Ok")
      /\ CastVoteScoped(last.pre)
      /\ last.pre.weight_action_target # Some(last.arg) )
    => /\ vwr[last.key].voter_weight = DEFAULT_VOTE_WEIGHT
       /\ vwr[last.key].weight_action_target = Some(last.arg)

\* a record holding two calls' weight for one proposal was voted on another
C2_Witness ==
    /\ Called("cast_vote", "Ok")
    /\ CastVoteScoped(last.pre)
    /\ last.pre.voter_weight = Times(2, DEFAULT_VOTE_WEIGHT)
    /\ last.pre.weight_action_target # Some(last.arg)

\* C3: a cast_vote on the accumulation branch whose sum exceeds the u64
\* maximum fails fatally and leaves weight, expiry, action and target as they
\* were: the weight neither wraps nor saturates.
C3_OverflowFatal ==
    ( /\ last.op = "cast_vote"
      /\ last.accounts /\ last.signed /\ last.accepted
      /\ last.pre.weight_action = Some(CastVote)
      /\ last.pre.weight_action_target = Some(last.arg)
      /\ WideAdd(last.pre.voter_weight, DEFAULT_VOTE_WEIGHT)[1] > 0 )
    => /\ last.err = "Panic"
       /\ Stamped(vwr[last.key]) = Stamped(last.pre)

\* the call panicked on a record whose weight is one call short of overflowing
C3_Witness ==
    /\ Called("cast_vote", "Panic")
    /\ WideAdd(last.pre.voter_weight, DEFAULT_VOTE_WEIGHT)[1] > 0
    /\ vwr[last.key] = last.pre

\* C4: every successful cast_vote(proposal) leaves expiry = Some(current slot),
\* action = Some(cast-vote) and target = Some(proposal), whether it
\* accumulated or reset.
C4_StampsAfterCastVote ==
    Called("cast_vote", "Ok")
    => /\ vwr[last.key].voter_weight_expiry = Some(slot)
       /\ vwr[last.key].weight_action = Some(CastVote)
       /\ vwr[last.key].weight_action_target = Some(last.arg)

\* an accumulating call at a later slot than the record's previous stamp
C4_Witness ==
    /\ Called("cast_vote", "Ok")
    /\ last.pre.weight_action = Some(CastVote)
    /\ last.pre.weight_action_target = Some(last.arg)
    /\ last.pre.voter_weight_expiry # Some(slot)

\* C5: cast_vote succeeds only if the oracle accepts the presented token for
\* the record's owner and the network the registrar names at the call; a call
\* with a rejected token never changes the record, and fails with
\* InvalidGatewayToken when the accounts and the signer are in order.
C5_CredentialRequired ==
    last.op = "cast_vote"
    => /\ last.err = "Ok" => last.accepted
       /\ ~last.accepted => vwr[last.key] = last.pre
       /\ (~last.accepted /\ last.accounts /\ last.signed)
          => last.err = "InvalidGatewayToken"

\* a call was turned down for its token after the registrar changed network
C5_Witness ==
    /\ Called("cast_vote", "InvalidGatewayToken")
    /\ registrar.gatekeeper_network # InitRegistrar.gatekeeper_network
    /\ vwr[last.key] = last.pre

\* C6: each successful cast_vote contributes a weight of 1; the first
\* cast_vote on a fresh record yields weight 1.
C6_PerCallWeightIsOne ==
    ( /\ Called("cast_vote", "Ok")
      /\ last.pre.voter_weight = U64Zero /\ last.pre.weight_action = None )
    => vwr[last.key].voter_weight = UnitWeight

\* C7: update_voter_weight_record asked for the cast-vote action never
\* succeeds and never changes the record; with accounts and credential in
\* order it fails with CastVoteIsNotAllowed.
C7_UpdateRejectsCastVote ==
    (last.op = "update_voter_weight_record" /\ last.arg = CastVote)
    => /\ last.err # "Ok"
       /\ vwr[last.key] = last.pre
       /\ (last.accounts /\ last.accepted) => last.err = "CastVoteIsNotAllowed"

\* the cast-vote action was asked for a record that was not scoped to it
C7_Witness ==
    /\ Called("update_voter_weight_record", "CastVoteIsNotAllowed")
    /\ last.arg = CastVote
    /\ ~CastVoteScoped(last.pre)
    /\ vwr[last.key] = last.pre

\* C8: on a record scoped to (cast-vote, P) the general update never succeeds
\* and leaves weight, expiry, action and target as they were; with accounts
\* and credential in order it fails with the action-scoping error.
C8_ScopingRejection ==
    (last.op = "update_voter_weight_record" /\ CastVoteScoped(last.pre))
    => /\ last.err # "Ok"
       /\ Stamped(vwr[last.key]) = Stamped(last.pre)
       /\ (last.accounts /\ last.accepted) => last.err = "CastVoteIsNotAllowed"

\* an update for another action was tried in the middle of an accumulation
C8_Witness ==
    /\ Called("update_voter_weight_record", "CastVoteIsNotAllowed")
    /\ last.arg # CastVote
    /\ CastVoteScoped(last.pre)
    /\ last.pre.voter_weight = Times(2, DEFAULT_VOTE_WEIGHT)
    /\ vwr[last.key] = last.pre

\* C9: a successful update of a freshly created record for an action A other
\* than cast-vote leaves weight = 1, expiry = Some(current slot), action =
\* Some(A) and target = None.
C9_UpdateFreshRecord ==
    ( /\ Called("update_voter_weight_record", "Ok")
      /\ last.pre.voter_weight = U64Zero /\ last.pre.weight_action = None )
    => /\ vwr[last.key].voter_weight = UnitWeight
       /\ vwr[last.key].voter_weight_expiry = Some(slot)
       /\ vwr[last.key].weight_action = Some(last.arg)
       /\ vwr[last.key].weight_action_target = None

\* a record as create_voter_weight_record leaves it
Fresh(rec) ==
    /\ rec.voter_weight = U64Zero
    /\ rec.weight_action = None
    /\ rec.weight_action_target = None

\* C15: a newly created voter weight record has weight 0 and no scoping, so
\* the first cast_vote on it, for any proposal including the all-zero
\* identifier, takes the reset branch and not the accumulate branch.
C15_NewRecordResets ==
    /\ Called("create_voter_weight_record", "Ok") => Fresh(vwr[last.key])
    /\ ( /\ last.op = "cast_vote"
         /\ Fresh(last.pre)
         /\ last.accounts /\ last.signed /\ last.accepted )
       => /\ ~SameTarget(last.pre, last.arg)
          /\ last.err = "Ok"
          /\ vwr[last.key].voter_weight = DEFAULT_VOTE_WEIGHT

\* the first cast_vote on a new record was for the all-zero proposal
C15_Witness ==
    /\ Called("cast_vote", "Ok")
    /\ last.arg = 0
    /\ Fresh(last.pre)
    /\ last.pre.voter_weight_expiry = Some(0)
    /\ vwr[last.key].voter_weight = DEFAULT_VOTE_WEIGHT

\* what update_registrar leaves of the latest call: a call not signed by the
\* realm authority fails and changes nothing, a signed one naming another
\* authority fails with InvalidRealmAuthority, and the authority's call stores
\* the network and the predecessor it was given
RegistrarAfterCall ==
    last.op = "update_registrar"
    => /\ ~last.signed => last.err # "Ok"
       /\ (last.signed /\ ~last.accounts) => last.err = "InvalidRealmAuthority"
       /\ last.err # "Ok" => registrar = last.pre
       /\ (last.signed /\ last.accounts)
          => /\ last.err = "Ok"
             /\ registrar = [last.pre EXCEPT
                   !.gatekeeper_network = last.input.network,
                   !.previous_voting_weight_plugin_program_id =
                       last.input.predecessor]

\* the registrar changes in no other step than a call the realm authority
\* named and signed
RegistrarChangesByAuthority ==
    registrar' # registrar
    => /\ last'.op = "update_registrar"
       /\ last'.accounts /\ last'.signed
       /\ last'.pre = registrar

C19_CastVoteAccountErrors ==
    last.op = "cast_vote" =>
       LET realmDiffers == last.pre.realm # last.input.realm
           mintDiffers == last.pre.governing_token_mint # last.input.governing_token_mint
           notOwner == last.input.signer # last.pre.governing_token_owner
       IN  /\ (realmDiffers \/ mintDiffers \/ notOwner)
                => /\ last.err \in {"InvalidVoterWeightRecordRealm",
                                    "InvalidVoterWeightRecordMint",
                                    "InvalidTokenOwnerForVoterWeightRecord"}
                   /\ vwr[last.key] = last.pre
           /\ realmDiffers => last.err = "InvalidVoterWeightRecordRealm"
           /\ (mintDiffers /\ ~realmDiffers)
                => last.err = "InvalidVoterWeightRecordMint"
           /\ (notOwner /\ ~realmDiffers /\ ~mintDiffers)
                => last.err = "InvalidTokenOwnerForVoterWeightRecord"
           /\ vwr[last.key] # last.pre
                => last.input.signer = last.pre.governing_token_owner

\* a stranger holding a credential the oracle accepts for the owner signed a
\* cast_vote for a record that had accumulated weight
C19_Witness ==
    /\ last.op = "cast_vote"
    /\ last.err = "InvalidTokenOwnerForVoterWeightRecord"
    /\ last.input.signer # last.pre.governing_token_owner
    /\ last.accepted
    /\ last.pre.voter_weight # U64Zero
    /\ vwr[last.key] = last.pre

\* C17: is_initialized reports a record initialized exactly when its realm,
\* mint and owner are all non-zero, so the record with all three zero is
\* reported uninitialized; no cast_vote and no update succeeds on a record
\* is_initialized reports uninitialized, and such a record stays as it was
\* allocated: no weight and no expiry is ever stamped on it
ReportedExactly ==
    calc.fn = "is_initialized" =>
        calc.outs[1] = (/\ calc.inputs.realm # 0
                        /\ calc.inputs.governing_token_mint # 0
                        /\ calc.inputs.governing_token_owner # 0)

----------------------------------------------------------------------------
(* Properties of the quadratic plugin *)

\* the natural a u64 below 2^31 holds
U64ToNat(w) == w[3] * LimbBase + w[4]

\* w = floor(a * sqrt(x) + b * x + c) for a coefficient a >= 0
IsTransformOf(w, x, co) ==
    LET r == w - co.b * x - co.c
    IN  r >= 0 /\ r * r <= co.a * co.a * x /\ (r + 1) * (r + 1) > co.a * co.a * x

\* C10: with no predecessor configured, every successful update of a voter
\* weight record of the quadratic plugin, run on its own or as the update
\* step of casting a vote, leaves weight = transform(owner's deposit), expiry
\* = Some(current slot), action = None and target = None.
C10_QuadraticUpdate ==
    ( /\ qlast.op \in {"update_voter_weight_record", "cast_vote"}
      /\ qlast.err = "Ok"
      /\ qregistrar.previous_voter_weight_plugin_program_id = None )
    => /\ qvwr[qlast.key].voter_weight[1] = 0
       /\ qvwr[qlast.key].voter_weight[2] = 0
       /\ IsTransformOf(U64ToNat(qvwr[qlast.key].voter_weight),
                        deposits[qlast.key], qregistrar.quadratic_coefficients)
       /\ qvwr[qlast.key].voter_weight_expiry = Some(slot)
       /\ qvwr[qlast.key].weight_action = None
       /\ qvwr[qlast.key].weight_action_target = None

\* the update step of a vote ran at a later slot on a deposit of 1,000,000
\* and replaced the weight and the scope an earlier update had left
C10_Witness ==
    /\ qlast.op = "cast_vote" /\ qlast.err = "Ok"
    /\ qregistrar.previous_voter_weight_plugin_program_id = None
    /\ deposits[qlast.key] = 1000000
    /\ qlast.pre.voter_weight_expiry # Some(slot)
    /\ qlast.pre.weight_action # None

----------------------------------------------------------------------------
(* Properties of convert_vote *)

\* convert_vote has run on the first i base weights
Converted(i) == calc.fn = "convert_vote" /\ Len(calc.outs) >= i

\* C11: the quadratic transform with coefficients a = 0, b = 0, c = 0 applied
\* to base weight 1,000,000 yields 1,000.
C11_KnownValueZeroCoefficients ==
    ( /\ Converted(1)
      /\ calc.inputs.coefficients = [a |-> 0, b |-> 0, c |-> 0]
      /\ calc.inputs.weights[1] = U64FromNat(1000000) )
    => calc.outs[1] = Some(U64FromNat(1000))

\* C11 as amended: the quadratic transform with coefficients a = 1, b = 0,
\* c = 0 (the pure square root) applied to base weight 1,000,000 yields 1,000.
C11_KnownValue ==
    ( /\ Converted(1)
      /\ calc.inputs.coefficients = [a |-> 1, b |-> 0, c |-> 0]
      /\ calc.inputs.weights[1] = U64FromNat(1000000) )
    => calc.outs[1] = Some(U64FromNat(1000))

\* the pure square root of 1,000,000 has been taken
C11_Witness ==
    /\ Converted(1)
    /\ calc.inputs.coefficients = [a |-> 1, b |-> 0, c |-> 0]
    /\ calc.inputs.weights[1] = U64FromNat(1000000)
    /\ calc.outs[1] = Some(U64FromNat(1000))

\* x <= y for two u64
U64Leq(x, y) ==
    \E i \in 1..5 : /\ \A j \in 1..(i - 1) : x[j] = y[j]
                    /\ i <= 4 => x[i] < y[i]

BigNeg(p) == [neg |-> ~p.neg /\ p.mag # << >>, mag |-> p.mag]

\* a * a * x, the square of the first term
SquareOfFirstTerm(x, co) ==
    NatMul(NatMul(BigFromInt(co.a).mag, BigFromInt(co.a).mag), FloatFromU64(x).mag)

\* t - (b * x + c)
LessLinearTerms(t, x, co) ==
    BigAdd(t, BigNeg(BigAdd(BigMul(FloatFromU64(x), BigFromInt(co.b)),
                            BigFromInt(co.c))))

\* w = floor(a * sqrt(x) + b * x + c): r = w - b * x - c is the whole number
\* with r <= a * sqrt(x) < r + 1
FloorIs(w, x, co) ==
    LET r == LessLinearTerms(FloatFromU64(w), x, co)
        s == r.mag
        square == SquareOfFirstTerm(x, co)
    IN  IF co.a >= 0
        THEN /\ ~r.neg
             /\ NatLeq(NatMul(s, s), square)
             /\ ~NatLeq(NatMul(NatAdd(s, <<1>>), NatAdd(s, <<1>>)), square)
        ELSE /\ r.neg \/ s = << >>
             /\ NatLeq(square, NatMul(s, s))
             /\ s # << >> =>
                   ~NatLeq(square, NatMul(NatSub(s, <<1>>), NatSub(s, <<1>>)))

\* a * sqrt(x) + b * x + c < t for a whole number t
ValueBelow(t, x, co) ==
    LET m == LessLinearTerms(t, x, co)
        positive == ~m.neg /\ m.mag # << >>
        square == SquareOfFirstTerm(x, co)
    IN  IF co.a >= 0
        THEN positive /\ ~NatLeq(NatMul(m.mag, m.mag), square)
        ELSE positive \/ ~NatLeq(square, NatMul(m.mag, m.mag))

TwoTo64 == [neg |-> FALSE, mag |-> <<0, 0, 0, 0, 0, 0, 0, 0, 1>>]

C13_Monotone ==
    ( /\ Converted(2)
      /\ calc.inputs.coefficients.a > 0
      /\ calc.inputs.coefficients.b >= 0
      /\ calc.inputs.coefficients.c >= 0
      /\ U64Leq(calc.inputs.weights[1], calc.inputs.weights[2])
      /\ calc.inputs.weights[1] # calc.inputs.weights[2]
      /\ IsSome(calc.outs[1]) /\ IsSome(calc.outs[2]) )
    => U64Leq(Unwrap(calc.outs[1]), Unwrap(calc.outs[2]))

\* 2^32 and 2^62 were converted with a = 1, b = 0, c = 0 and the second
\* came out larger
C13_Witness ==
    /\ Converted(2)
    /\ calc.inputs.coefficients = [a |-> 1, b |-> 0, c |-> 0]
    /\ calc.inputs.weights = << <<0, 1, 0, 0>>, <<16384, 0, 0, 0>> >>
    /\ calc.outs = << Some(<<0, 0, 1, 0>>), Some(<<0, 0, 32768, 0>>) >>

----------------------------------------------------------------------------
(* Properties of predecessor chaining *)

\* the record presented is a predecessor's voter weight record for the realm
\* and mint of the registrar, owned by the program the registrar names
VerifiedPredecessor(reg, input) ==
    /\ input.kind = "voter_weight_record"
    /\ Some(input.record.program) = reg.previous_voter_weight_plugin_program_id
    /\ input.record.realm = reg.realm
    /\ input.record.governing_token_mint = reg.governing_token_mint

\* the action of this plugin that carries the external action's name
SameNamedAction(weight_action) ==
    IF weight_action = None THEN None
    ELSE Some(AsU32(Unwrap(weight_action), VoterWeightActionNames))

InputKindOf(reg) ==
    IF reg.previous_voter_weight_plugin_program_id = None
    THEN "token_owner_record" ELSE "voter_weight_record"

\* configure_registrar leaves every voter weight record as it was
ConfigurationKeepsRecords ==
    qlast'.op = "configure_registrar" => qvwr' = qvwr

\* a record changes only in its creation, an update or a cast_vote, and the
\* update that succeeds works from the configuration of that moment
RecordsFollowAtNextUpdate ==
    /\ qvwr' # qvwr =>
          qlast'.op \in {"create_voter_weight_record",
                         "update_voter_weight_record", "cast_vote"}
    /\ ( /\ qlast'.op \in {"update_voter_weight_record", "cast_vote"}
         /\ qlast'.err = "Ok" )
          => qlast'.input.kind = InputKindOf(qregistrar)

\* C20: configure_registrar never modifies a voter weight record: weight,
\* expiry, action and target of every record are after it what they were
\* before, whether it succeeds or is refused; a record takes up the new
\* configuration only in its next update or cast_vote.
C20_ConfigurationFrame ==
    [][ConfigurationKeepsRecords /\ RecordsFollowAtNextUpdate]_vars

\* the authority has switched the registrar to the predecessor while a record
\* holds the weight computed from a deposit
C20_Witness ==
    /\ qlast.op = "configure_registrar"
    /\ qlast.err = "Ok"
    /\ qlast.pre.previous_voter_weight_plugin_program_id = None
    /\ qregistrar.previous_voter_weight_plugin_program_id = Some(PredecessorProgram)
    /\ \E k \in DOMAIN qvwr :
          /\ qvwr[k].voter_weight # U64Zero
          /\ qvwr[k].weight_action = None

----------------------------------------------------------------------------
(* Properties of the adapter between the two action enumerations *)

\* the adapter has run
Adapted == calc.fn = "get_weight_action" /\ Len(calc.outs) = 1

\* the two enumerations name the same variant at position i
InSyncAt(e, i) ==
    i \in 1..Len(VoterWeightActionNames) /\ e[i] = VoterWeightActionNames[i]

\* C18: the adapter maps the external ordinal i in 0..4 to the internal action
\* of ordinal i and an absent action to absent, and any divergence between the
\* two enumerations in arity or order is fatal: the adapter never returns an
\* action that is another one than the action presented, nor a default.
C18_DivergenceIsFatal ==
    Adapted =>
       LET e == calc.inputs.enumeration
           x == calc.inputs.weight_action
           r == calc.outs[1]
       IN  /\ x = None => r = [err |-> "Ok", action |-> None]
           /\ \A i \in 1..Len(e) :
                 x = Some(e[i]) =>
                    IF InSyncAt(e, i)
                    THEN r = [err |-> "Ok", action |-> Some(i - 1)]
                    ELSE r.err = "Panic"

\* C18 as amended: the adapter maps the external ordinal i in 0..4 to the
\* internal action of ordinal i, whatever the variant is called in the
\* external enumeration, and an absent action to absent; an ordinal outside
\* 0..4 is fatal and yields no action, never a default.
C18_AdapterByOrdinal ==
    Adapted =>
       LET e == calc.inputs.enumeration
           x == calc.inputs.weight_action
           r == calc.outs[1]
       IN  /\ x = None => r = [err |-> "Ok", action |-> None]
           /\ \A i \in 1..Len(e) :
                 x = Some(e[i]) =>
                    IF i - 1 \in 0..4
                    THEN r = [err |-> "Ok", action |-> Some(i - 1)]
                    ELSE r = [err |-> "Panic", action |-> None]

\* the variant the external enumeration has beyond the five was presented
C18_Witness ==
    /\ Adapted
    /\ Len(calc.inputs.enumeration) = 6
    /\ calc.inputs.weight_action = Some(calc.inputs.enumeration[6])
    /\ calc.outs[1].err = "Panic"

----------------------------------------------------------------------------
(* Further properties of the gateway plugin's cast_vote *)

\* C22: whether a successful cast_vote for P accumulates or resets is decided
\* by the stored action and target alone, whatever the stored expiry: on a
\* record scoped to (cast-vote, P) it adds one per-call weight to the stored
\* weight, also at a slot later than the one the record was stamped at, and
\* on any other record it stores one per-call weight.
C22_ExpiryDoesNotDecide ==
    Called("cast_vote", "Ok")
    => IF /\ last.pre.weight_action = Some(CastVote)
          /\ last.pre.weight_action_target = Some(last.arg)
       THEN Some(vwr[last.key].voter_weight)
               = checked_add(last.pre.voter_weight, DEFAULT_VOTE_WEIGHT)
       ELSE vwr[last.key].voter_weight = DEFAULT_VOTE_WEIGHT

\* a record stamped at an earlier slot for P has kept its weight and added to
\* it in a cast_vote for P
C22_Witness ==
    /\ Called("cast_vote", "Ok")
    /\ last.pre.weight_action = Some(CastVote)
    /\ last.pre.weight_action_target = Some(last.arg)
    /\ IsSome(last.pre.voter_weight_expiry)
    /\ Unwrap(last.pre.voter_weight_expiry) < slot
    /\ last.pre.voter_weight # U64Zero
    /\ last.pre.voter_weight # vwr[last.key].voter_weight
    /\ U64Leq(last.pre.voter_weight, vwr[last.key].voter_weight)

\* a successful update or cast_vote on record k is the step being taken
StampedIn(k) ==
    /\ last'.op \in {"cast_vote", "update_voter_weight_record"}
    /\ last'.err = "Ok"
    /\ last'.key = k

\* the step stamps the slot it runs in, or leaves the expiry alone
ExpiryFollowsSuccess ==
    \A k \in DOMAIN vwr :
       /\ StampedIn(k) => vwr'[k].voter_weight_expiry = Some(slot)
       /\ ~StampedIn(k) => vwr'[k].voter_weight_expiry = vwr[k].voter_weight_expiry
       /\ IsSome(vwr[k].voter_weight_expiry)
            => /\ IsSome(vwr'[k].voter_weight_expiry)
               /\ Unwrap(vwr[k].voter_weight_expiry)
                     <= Unwrap(vwr'[k].voter_weight_expiry)

\* no expiry lies ahead of the clock, and the record of the last successful
\* operation carries the current slot
ExpiryNotAhead ==
    /\ \A k \in DOMAIN vwr :
          IsSome(vwr[k].voter_weight_expiry)
             => Unwrap(vwr[k].voter_weight_expiry) <= slot
    /\ ( /\ last.op \in {"cast_vote", "update_voter_weight_record"}
         /\ last.err = "Ok" )
          => vwr[last.key].voter_weight_expiry = Some(slot)

\* C23: a successful update or cast_vote leaves the record's expiry present
\* and equal to the slot it ran in, and nothing else changes an expiry, a
\* failed operation included; hence the expiry of a record that has been
\* through a successful operation is the slot of the most recent one, is never
\* greater than the current slot and never decreases.
C23_ExpiryIsLastSuccess ==
    []ExpiryNotAhead /\ [][ExpiryFollowsSuccess]_vars

\* a record an update had stamped at an earlier slot has been stamped again
\* by a cast_vote
C23_Witness ==
    /\ Called("cast_vote", "Ok")
    /\ last.pre.weight_action \in {Some(CommentProposal), Some(CreateProposal)}
    /\ IsSome(last.pre.voter_weight_expiry)
    /\ Unwrap(last.pre.voter_weight_expiry) < slot
    /\ vwr[last.key].voter_weight_expiry = Some(slot)

\* the fields of a record cast_vote does not write
IdentityOf(rec) ==
    <<rec.realm, rec.governing_token_mint, rec.governing_token_owner, rec.reserved>>

\* a cast_vote step leaves alone what is not the weight, expiry, action and
\* target of the record it is given
CastVoteFrame ==
    last'.op = "cast_vote" =>
       /\ registrar' = registrar
       /\ DOMAIN vwr' = DOMAIN vwr
       /\ \A k \in DOMAIN vwr :
             IF k = last'.key
             THEN /\ IdentityOf(vwr'[k]) = IdentityOf(vwr[k])
                  /\ last'.err # "Ok" => vwr'[k] = vwr[k]
             ELSE vwr'[k] = vwr[k]

\* C24: a cast_vote call, successful or failed, leaves the registrar, the
\* record of every other owner and the realm, mint, owner and reserved bytes
\* of the record it is given as they were; a failed call leaves that record
\* as a whole as it was.
C24_CastVoteFrame == [][CastVoteFrame]_vars

\* owner 1 has cast a vote on proposal 0 under a reconfigured registrar while
\* the record of owner 2 holds the weight accumulated for proposal 1
C24_Witness ==
    /\ Called("cast_vote", "Ok")
    /\ last.key = 1
    /\ last.arg = 0
    /\ registrar # InitRegistrar
    /\ vwr[2].weight_action_target = Some(1)
    /\ vwr[2].voter_weight # U64Zero
    /\ vwr[1].weight_action_target = Some(0)

----------------------------------------------------------------------------
(* Properties of the gateway program's entry points *)

\* C21: the cast-vote accumulation is invocable through the entry points the
\* gateway program dispatches: a cast_vote instruction for a proposal P, sent
\* for a created record with the accounts of its registrar, the signature of
\* its owner and a credential the oracle accepts, leaves the record scoped to
\* (cast-vote, P) with a weight of at least one per-call weight.
C21_CastVoteDispatched ==
    ( /\ last.op = "cast_vote"
      /\ last.accounts /\ last.signed /\ last.accepted )
    => /\ vwr[last.key].weight_action = Some(CastVote)
       /\ vwr[last.key].weight_action_target = Some(last.arg)
       /\ U64Leq(DEFAULT_VOTE_WEIGHT, vwr[last.key].voter_weight)

\* through the entry points no record is ever scoped to casting a vote
NeverScopedThroughEntryPoints ==
    \A k \in DOMAIN vwr : vwr[k].weight_action # Some(CastVote)

====
